---- MODULE Spec2Model ----
(***************************************************************************)
(* Access reconciliation of app_pqc.py (tab 6, "Auditoria de               *)
(* Integridade"): the document's explicit grants are compared with the     *)
(* emails a reference table designates, directly or through one reference  *)
(* binding, and the grants and removals that the rows selected in the      *)
(* matrix lead to. Beside it, the replacement of a document's access      *)
(* rules (tab 4, "Enviar Regras") and the bulk copy and move of users      *)
(* between documents (tab 2).                                              *)
(*                                                                         *)
(* Python values are tagged records: None, a str (a sequence of one-       *)
(* character strings), an int, a list of values.                           *)
(***************************************************************************)
EXTENDS Integers, Sequences, FiniteSets, TLC

VARIABLES
    platform_users,     \* GET /docs/{doc}/access, "users": the listing the platform holds
    ref_records,        \* records of the chosen reference table (sel_table_audit)
    users_table,        \* records of the table Users, the target of the Ref column
    people_table,       \* records of the table People, another table of the document
    col_types,          \* ID -> Type of the columns of the reference table
    ref_res,            \* selectbox ref_res_{cid}: the email column of a Ref column's table
    man_ref,            \* selectboxes of "Configurar Referencias Manuais"
    doc_users_cache,    \* st.cache_data entry of get_doc_users for this document
    calls,              \* how the remote reads behind the last run ended
    doc_users,          \* what get_doc_users returned to the last run
    run_status,         \* "idle", "done" (matrix built), "exception" (run raised)
    st_errors,          \* st.error messages of the last run: the tables they name
    ref_lookups,        \* SourceColID -> (RefRowID -> email) of the last run
    actual_access_map,  \* email -> access of the last run
    table_data,         \* rows of the matrix of the last run
    matched_emails,     \* matched_emails of the last run
    orphans,            \* sorted orphans of the last run
    last_batch,         \* the last correction: rows selected, calls issued, message shown
    snapshot_stale,     \* history: the listing was changed after the cached copy was read
    acl_rules,          \* records of _grist_ACLRules of the document of tab 4
    acl_resources,      \* records of _grist_ACLResources of that document
    rules_tab,          \* the last press of "Enviar Regras": input, backup, requests, outcome
    docs_users,         \* Doc ID -> the listing the platform holds (documents of tab 2)
    mapped_data,        \* st.session_state.mapped_data: the rows of the mapping
    last_move           \* the last bulk copy or move: rows, destination, calls issued

\* the state of tab 2 and tab 4
other_tabs == <<acl_rules, acl_resources, rules_tab, docs_users, mapped_data, last_move>>

vars == <<platform_users, ref_records, users_table, people_table, col_types,
          ref_res, man_ref, doc_users_cache, calls,
          doc_users, run_status, st_errors, ref_lookups, actual_access_map, table_data,
          matched_emails, orphans, last_batch, snapshot_stale,
          acl_rules, acl_resources, rules_tab, docs_users, mapped_data, last_move>>

----------------------------------------------------------------------------
(* Bounds of the model. *)

\* most records of the reference table
MaxRows == 2
\* longest raw string of the cell-level specification
MaxStrLen == 3

----------------------------------------------------------------------------
(* Python values. *)

PyNone == [t |-> "none"]
PyStr(s) == [t |-> "str", s |-> s]
PyInt(n) == [t |-> "int", n |-> n]
PyList(xs) == [t |-> "list", xs |-> xs]

IsStr(v) == v.t = "str"
IsInt(v) == v.t = "int"
IsList(v) == v.t = "list"

\* truth value of a Python object: None, "", 0 and [] are false
Truthy(v) ==
    CASE v.t = "none" -> FALSE
      [] v.t = "str" -> v.s # <<>>
      [] v.t = "int" -> v.n # 0
      [] v.t = "list" -> v.xs # <<>>

\* dict.get(key): the value, or None when the key is absent
DictGet(d, k) == IF k \in DOMAIN d THEN d[k] ELSE PyNone

----------------------------------------------------------------------------
(* str methods, on sequences of characters. *)

\* code points of the characters of the model
Ord(c) ==
    CASE c = " " -> 32
      [] c = "," -> 44
      [] c = "A" -> 65
      [] c = "B" -> 66
      [] c = "L" -> 76
      [] c = "a" -> 97
      [] c = "b" -> 98
      [] c = "l" -> 108

LowerChar(c) ==
    CASE c = "A" -> "a"
      [] c = "B" -> "b"
      [] c = "L" -> "l"
      [] OTHER -> c

\* str.lower()
Lower(s) == [i \in 1..Len(s) |-> LowerChar(s[i])]

IsSpace(c) == c = " "

RECURSIVE LStrip(_)
LStrip(s) == IF s # <<>> /\ IsSpace(Head(s)) THEN LStrip(Tail(s)) ELSE s

RECURSIVE RStrip(_)
RStrip(s) ==
    IF s # <<>> /\ IsSpace(s[Len(s)]) THEN RStrip(SubSeq(s, 1, Len(s) - 1)) ELSE s

\* str.strip()
Strip(s) == RStrip(LStrip(s))

\* mutant: the letter case is kept
NormEmailKeepsCase(s) == Strip(s)

\* x.strip().lower(): the normal form of an email
NormEmail(s) == Lower(Strip(s))

\* str.split(","): "" gives [""], "a," gives ["a", ""]
RECURSIVE SplitComma(_)
SplitComma(s) ==
    LET commas == {i \in 1..Len(s) : s[i] = ","} IN
    IF commas = {} THEN <<s>>
    ELSE LET i == CHOOSE k \in commas : \A j \in commas : k <= j IN
         <<SubSeq(s, 1, i - 1)>> \o SplitComma(SubSeq(s, i + 1, Len(s)))

\* s < t in Python's order of str (by code point, a prefix first)
RECURSIVE StrLess(_, _)
StrLess(s, t) ==
    IF t = <<>> THEN FALSE
    ELSE IF s = <<>> THEN TRUE
    ELSE IF Ord(Head(s)) # Ord(Head(t)) THEN Ord(Head(s)) < Ord(Head(t))
    ELSE StrLess(Tail(s), Tail(t))

\* mutant: the largest first
RECURSIVE SortedDescending(_)
SortedDescending(S) ==
    IF S = {} THEN <<>>
    ELSE LET m == CHOOSE x \in S : \A y \in S \ {x} : StrLess(y, x) IN
         <<m>> \o SortedDescending(S \ {m})

\* sorted(list(S)) of a set of str
RECURSIVE Sorted(_)
Sorted(S) ==
    IF S = {} THEN <<>>
    ELSE LET m == CHOOSE x \in S : \A y \in S \ {x} : StrLess(x, y) IN
         <<m>> \o Sorted(S \ {m})

\* the elements of a sequence
Range(f) == {f[i] : i \in DOMAIN f}

----------------------------------------------------------------------------
(* Configuration of the audit: the widgets of tab 6 above the run button. *)

\* col_map_rev[sel_title_label]
title_col_id == "title"

\* [col_map_rev[l] for l in sel_email_labels]: c1 holds literal text, c2 is bound
email_col_ids == <<"c1", "c2">>

\* a declared column type: "Text", "Any", "Ref:<table>", "RefList:<table>"
ColType(kind, table) == [kind |-> kind, table |-> table]

\* ctype.startswith("Ref:"): a RefList type does not start with it
IsRefType(ctype) == ctype.kind = "Ref"

\* ctype.split(":")[1]
RefTable(ctype) == ctype.table

\* a selectbox that holds no option (index=None, or "(Selecione)")
NoChoice == "(none)"

\* {'target_table': Tbl, 'target_col': ColID}
Binding(tbl, col) == [target_table |-> tbl, target_col |-> col]

\* the bindings detected from the declared types: one for every email column
\* of a Ref type whose selectbox holds a target column
AutoRefConfigs(types, res) ==
    LET detected == {c \in Range(email_col_ids) :
                        /\ c \in DOMAIN types
                        /\ IsRefType(types[c])
                        /\ res[c] # NoChoice}
    IN [c \in detected |-> Binding(RefTable(types[c]), res[c])]

\* mutant: a binding detected from the type is kept
ManualRefConfigKeepsAuto(cfgs, man) ==
    IF man.col # NoChoice /\ man.col \notin DOMAIN cfgs
    THEN [c \in DOMAIN cfgs \cup {man.col} |->
            IF c = man.col THEN Binding(man.table, man.target_col) ELSE cfgs[c]]
    ELSE cfgs

\* ref_configs[m_cid] = {...}: the manual binding is written last
ManualRefConfig(cfgs, man) ==
    IF man.col # NoChoice
    THEN [c \in DOMAIN cfgs \cup {man.col} |->
            IF c = man.col THEN Binding(man.table, man.target_col) ELSE cfgs[c]]
    ELSE cfgs

\* {SourceColID: {'target_table': Tbl, 'target_col': ColID}}, as the page
\* script rebuilds it from the widgets on every run
ref_configs == ManualRefConfig(AutoRefConfigs(col_types, ref_res), man_ref)

\* the tables a binding may name
target_tables == [Users |-> users_table, People |-> people_table]

----------------------------------------------------------------------------
(* Remote reads. *)

\* result of a call: the value returned, or raised = TRUE
Returned(v) == [raised |-> FALSE, value |-> v]
Raised == [raised |-> TRUE, value |-> <<>>]

\* fetch_table_records: 403 raises PermissionError; 404 and every other
\* failure ("error") return []
fetch_table_records(outcome, recs) ==
    CASE outcome = "ok" -> Returned(recs)
      [] outcome = "denied" -> Raised
      [] outcome = "error" -> Returned(<<>>)

\* body of get_doc_users, run on a cache miss: any failure returns []
get_doc_users_call(outcome, users) ==
    IF outcome = "ok" THEN users ELSE <<>>

\* get_doc_users under st.cache_data: the cached value on a hit
get_doc_users(outcome, cache, users) ==
    IF cache.hit THEN cache.value ELSE get_doc_users_call(outcome, users)

----------------------------------------------------------------------------
(* Reference lookups and the access snapshot. *)

EmptyMap == [k \in {} |-> <<>>]

MapPut(m, k, v) == [x \in DOMAIN m \cup {k} |-> IF x = k THEN v ELSE m[x]]

\* lookup[rid] = str(val).strip().lower() for the records whose val is truthy
\* (the target column holds text or nothing, so str(val) is val)
RECURSIVE BuildLookup(_, _)
BuildLookup(t_recs, tgt_cid) ==
    IF t_recs = <<>> THEN EmptyMap
    ELSE LET n == Len(t_recs)
             r == t_recs[n]
             rest == BuildLookup(SubSeq(t_recs, 1, n - 1), tgt_cid)
             val == DictGet(r.fields, tgt_cid)
         IN IF Truthy(val) THEN MapPut(rest, r.id, NormEmail(val.s)) ELSE rest

\* the columns of ref_configs whose target table was read without raising
PrefetchedCols(tgt) ==
    {c \in DOMAIN ref_configs : ~fetch_table_records(tgt, <<>>).raised}

\* mutant: the lookups of the run before are used again when there are any
PrefetchLookupsKept(tgt, tables) ==
    IF DOMAIN ref_lookups # {} THEN ref_lookups
    ELSE [c \in PrefetchedCols(tgt) |->
            BuildLookup(fetch_table_records(tgt, tables[ref_configs[c].target_table]).value,
                        ref_configs[c].target_col)]

\* ref_lookups after the pre-fetch loop: tables holds the records of every
\* table a binding may name (the reads of one run end alike)
PrefetchLookups(tgt, tables) ==
    [c \in PrefetchedCols(tgt) |->
        BuildLookup(fetch_table_records(tgt, tables[ref_configs[c].target_table]).value,
                    ref_configs[c].target_col)]

\* the target tables whose read raised: one st.error each
PrefetchErrors(tgt) ==
    {ref_configs[c].target_table : c \in DOMAIN ref_configs \ PrefetchedCols(tgt)}

\* mutant: the role of the entry is not looked at
HasExplicitAccessAnyRole(u) == Truthy(u.email)

\* whether an entry of the listing enters the snapshot
HasExplicitAccess(u) == Truthy(u.email) /\ Truthy(u.access)

\* actual_access_map: email.strip().lower() -> access
RECURSIVE BuildAccessMap(_)
BuildAccessMap(listing) ==
    IF listing = <<>> THEN EmptyMap
    ELSE LET n == Len(listing)
             u == listing[n]
             rest == BuildAccessMap(SubSeq(listing, 1, n - 1))
         IN IF HasExplicitAccess(u)
            THEN MapPut(rest, NormEmail(u.email.s), u.access)
            ELSE rest

----------------------------------------------------------------------------
(* Resolution of one cell. *)

\* the leading 'L' of Grist's list encoding
ListMarker == PyStr(<<"L">>)

\* mutant: lookup.get(val, "?"), a placeholder text on a miss
ResolveSingleRefPlaceholder(val, col_id, lookups) ==
    IF col_id \in DOMAIN lookups /\ IsInt(val)
    THEN IF val.n \in DOMAIN lookups[col_id]
         THEN PyStr(lookups[col_id][val.n])
         ELSE PyStr(<<"?">>)
    ELSE val

\* a single reference is swapped for the looked-up email, None on a miss
ResolveSingleRef(val, col_id, lookups) ==
    IF col_id \in DOMAIN lookups /\ IsInt(val)
    THEN IF val.n \in DOMAIN lookups[col_id]
         THEN PyStr(lookups[col_id][val.n])
         ELSE PyNone
    ELSE val

\* mutant: the marker is iterated like an item
ListItemsWithMarker(xs) == xs

\* val[1:] if val[0] == 'L' else val
ListItems(xs) == IF Len(xs) > 0 /\ xs[1] = ListMarker THEN Tail(xs) ELSE xs

\* the emails one item of a list adds to cell_emails
ItemEmails(item, col_id, lookups) ==
    IF IsInt(item) /\ col_id \in DOMAIN lookups
    THEN IF item.n \in DOMAIN lookups[col_id] /\ lookups[col_id][item.n] # <<>>
         THEN <<lookups[col_id][item.n]>>
         ELSE <<>>
    ELSE IF IsStr(item) THEN <<NormEmail(item.s)>>
    ELSE <<>>

RECURSIVE ItemsEmails(_, _, _)
ItemsEmails(items, col_id, lookups) ==
    IF items = <<>> THEN <<>>
    ELSE ItemEmails(Head(items), col_id, lookups)
         \o ItemsEmails(Tail(items), col_id, lookups)

\* mutant: the parts are not trimmed
PartsEmailsUntrimmed(s) ==
    LET parts == SplitComma(s) IN [i \in 1..Len(parts) |-> Lower(parts[i])]

\* for p in val.split(","): cell_emails.append(p.strip().lower())
PartsEmails(s) ==
    LET parts == SplitComma(s) IN [i \in 1..Len(parts) |-> NormEmail(parts[i])]

\* cell_emails of the cell val of column col_id
CellEmails(val0, col_id, lookups) ==
    LET val == ResolveSingleRef(val0, col_id, lookups) IN
    IF ~Truthy(val) THEN <<>>
    ELSE IF IsList(val) THEN ItemsEmails(ListItems(val.xs), col_id, lookups)
    ELSE IF IsStr(val) THEN PartsEmails(val.s)
    ELSE <<>>

----------------------------------------------------------------------------
(* The matrix. *)

\* mutant: the test of the status is inverted
IsPresentInverted(em, access_map) == em \notin DOMAIN access_map

\* status of one email of a cell
IsPresent(em, access_map) == em \in DOMAIN access_map

\* cell_display: one indicator per email of the cell, in order
CellDisplay(cell_emails, access_map) ==
    [i \in 1..Len(cell_emails) |->
        [mark |-> IF IsPresent(cell_emails[i], access_map) THEN "present" ELSE "missing",
         email |-> cell_emails[i]]]

\* what the cell appends to missing_emails_in_row
CellMissing(cell_emails, access_map) ==
    LET Absent(em) == ~IsPresent(em, access_map) IN SelectSeq(cell_emails, Absent)

\* what the cell adds to matched_emails
CellMatched(cell_emails, access_map) ==
    {em \in Range(cell_emails) : IsPresent(em, access_map)}

\* missing_emails_in_row over the columns cols, in order
RECURSIVE RowMissing(_, _, _, _)
RowMissing(r, cols, access_map, lookups) ==
    IF cols = <<>> THEN <<>>
    ELSE CellMissing(CellEmails(DictGet(r.fields, Head(cols)), Head(cols), lookups),
                     access_map)
         \o RowMissing(r, Tail(cols), access_map, lookups)

\* row_title or "" (a title is text or None here, never a list)
RowTitle(r) ==
    LET row_title == DictGet(r.fields, title_col_id) IN
    IF Truthy(row_title) THEN row_title ELSE PyStr(<<>>)

\* row_obj of a reference record
ReferenceRow(r, access_map, lookups) ==
    [title |-> RowTitle(r),
     cells |-> [c \in Range(email_col_ids) |->
                  CellDisplay(CellEmails(DictGet(r.fields, c), c, lookups), access_map)],
     missing_emails |-> RowMissing(r, email_col_ids, access_map, lookups),
     orphan_email |-> PyNone,
     type |-> "reference"]

\* what a reference record adds to matched_emails
RowMatched(r, access_map, lookups) ==
    UNION {CellMatched(CellEmails(DictGet(r.fields, c), c, lookups), access_map) :
             c \in Range(email_col_ids)}

\* matched_emails after the loop over the records
MatchedEmails(records, access_map, lookups) ==
    UNION {RowMatched(records[i], access_map, lookups) : i \in DOMAIN records}

\* mutant: the orphans are all emails of the document
OrphansNotSubtracted(access_map, matched) == Sorted(DOMAIN access_map)

\* sorted(list(all_doc_emails - matched_emails))
Orphans(access_map, matched) == Sorted(DOMAIN access_map \ matched)

\* mutant: the orphan is written into every email column
OrphanRowEveryColumn(orphan) ==
    [title |-> PyStr(<<>>),
     cells |-> [c \in Range(email_col_ids) |-> <<[mark |-> "orphan", email |-> orphan]>>],
     missing_emails |-> <<>>,
     orphan_email |-> PyStr(orphan),
     type |-> "orphan"]

\* row_obj of an orphan: blank title, the orphan in the first email column
OrphanRow(orphan) ==
    [title |-> PyStr(<<>>),
     cells |-> [c \in Range(email_col_ids) |->
                  IF c = email_col_ids[1]
                  THEN <<[mark |-> "orphan", email |-> orphan]>>
                  ELSE <<>>],
     missing_emails |-> <<>>,
     orphan_email |-> PyStr(orphan),
     type |-> "orphan"]

\* mutant: a record without emails gets no row
TableDataSkipsEmptyRows(records, access_map, lookups) ==
    LET os == Orphans(access_map, MatchedEmails(records, access_map, lookups))
        HasEmail(row) == \E c \in Range(email_col_ids) : row.cells[c] # <<>>
    IN
    SelectSeq([i \in 1..Len(records) |-> ReferenceRow(records[i], access_map, lookups)],
              HasEmail)
    \o [i \in 1..Len(os) |-> OrphanRow(os[i])]

\* table_data: the reference rows, then the orphan rows
TableData(records, access_map, lookups) ==
    LET os == Orphans(access_map, MatchedEmails(records, access_map, lookups)) IN
    [i \in 1..Len(records) |-> ReferenceRow(records[i], access_map, lookups)]
    \o [i \in 1..Len(os) |-> OrphanRow(os[i])]

----------------------------------------------------------------------------
(* The data the platform may hold. *)

\* an entry of the access listing
User(email, access) == [email |-> email, access |-> access]

\* a role name of the platform, a non-empty str
Role(r) == PyStr(<<r>>)

\* a record of a table
Record(id, fields) == [id |-> id, fields |-> fields]

\* the sequences over S of at most n elements
SeqsUpTo(S, n) == UNION {[1..k -> S] : k \in 0..n}

\* entries of the listing: an explicit grant under a raw spelling, the same
\* email with inherited access only, another explicit grant, another
\* inherited access
uA == User(PyStr(<<"A", " ">>), Role("owners"))
uA0 == User(PyStr(<<"a">>), PyNone)
uB == User(PyStr(<<"b">>), Role("viewers"))
uL0 == User(PyStr(<<"l">>), PyNone)

\* the listings of the document
Listings ==
    {<<>>, <<uA>>, <<uA0>>, <<uA, uB>>, <<uA, uA0>>, <<uB, uL0>>, <<uA0, uB, uA>>}

Fields(title, c1, c2) == [title |-> title, c1 |-> c1, c2 |-> c2]

\* rows of the reference table: comma-separated text, lists with and without
\* the marker, single references (present and absent), lists of references,
\* empty cells
FieldsPool ==
    {Fields(PyStr(<<"T">>), PyStr(<<"a", ",", " ", "L">>), PyInt(1)),
     Fields(PyStr(<<"T">>), PyList(<<ListMarker, PyStr(<<" ", "A">>), PyStr(<<"b">>)>>),
            PyList(<<ListMarker, PyInt(1)>>)),
     Fields(PyNone, PyList(<<PyStr(<<" ", "A">>), PyStr(<<"b">>)>>),
            PyList(<<PyInt(3), PyInt(2)>>)),
     Fields(PyStr(<<"T">>), PyNone, PyInt(3))}

\* the records of a table are numbered from 1
Records(fs) == [i \in 1..Len(fs) |-> Record(i, fs[i])]

RecordSets == {Records(fs) : fs \in SeqsUpTo(FieldsPool, MaxRows)}

\* contents of the target table: empty; plain emails; a cell holding two
\* emails and an empty cell
UsersTables ==
    {<<>>,
     <<Record(1, [Email |-> PyStr(<<"A">>)]), Record(2, [Email |-> PyStr(<<"b", " ">>)])>>,
     <<Record(1, [Email |-> PyStr(<<"a", ",", "b">>)]), Record(2, [Email |-> PyNone])>>}

----------------------------------------------------------------------------
(* State. *)

CacheMiss == [hit |-> FALSE, value |-> <<>>]
CacheHit(v) == [hit |-> TRUE, value |-> v]

NoCalls == [access |-> "none", target |-> "none", records |-> "none"]

\* nothing displayed: no run since the page was drawn
Idle ==
    /\ calls = NoCalls
    /\ doc_users = <<>>
    /\ run_status = "idle"
    /\ st_errors = {}
    /\ ref_lookups = EmptyMap
    /\ actual_access_map = EmptyMap
    /\ table_data = <<>>
    /\ matched_emails = {}
    /\ orphans = <<>>

\* the widgets of the audit of a table whose column c2 is a Ref to Users,
\* bound to Users.Email; no manual binding
DetectedConfig ==
    /\ col_types = [c1 |-> ColType("Text", ""), c2 |-> ColType("Ref", "Users")]
    /\ ref_res = [c1 |-> NoChoice, c2 |-> "Email"]
    /\ man_ref = [col |-> NoChoice, table |-> NoChoice, target_col |-> NoChoice]
    /\ people_table = <<>>

\* no correction was issued
NoBatch ==
    [kind |-> "none", rows |-> <<>>, all_selected |-> FALSE, issued |-> <<>>,
     st_success |-> ""]

NoCorrection ==
    /\ last_batch = NoBatch
    /\ snapshot_stale = FALSE

\* "Enviar Regras" was not pressed
NoSend ==
    [supplied |-> <<>>, before |-> <<>>, backup |-> [written |-> FALSE, content |-> <<>>],
     issued |-> <<>>, result |-> "none"]

\* no bulk operation was run
NoMove ==
    [kind |-> "none", rows |-> <<>>, dest |-> "", before |-> <<>>, issued |-> <<>>,
     n |-> 0]

\* tab 4 is not used: a document without rules
NoRules ==
    /\ acl_rules = <<>>
    /\ acl_resources = <<>>
    /\ rules_tab = NoSend

\* tab 2 is not used: no document mapped
NoMapping ==
    /\ docs_users = <<>>
    /\ mapped_data = <<>>
    /\ last_move = NoMove

OtherTabsUntouched == NoRules /\ NoMapping

Init ==
    /\ platform_users \in Listings
    /\ ref_records \in RecordSets
    /\ users_table \in UsersTables
    /\ DetectedConfig
    /\ doc_users_cache = CacheMiss
    /\ Idle
    /\ NoCorrection
    /\ OtherTabsUntouched

----------------------------------------------------------------------------
(* The run of the audit: the handler of "Executar Auditoria". *)

AccessOutcomes == {"ok", "failed"}
FetchOutcomes == {"ok", "denied", "error"}

\* acc, tgt, rec: how the access listing, the read of the target table and
\* the read of the reference table end. On a cache hit no listing call is
\* made: calls.access stays the outcome of the call that filled the cache.
RunAuditWith(acc, tgt, rec) ==
    LET lookups == PrefetchLookups(tgt, target_tables)
        users == get_doc_users(acc, doc_users_cache, platform_users)
        access_map == BuildAccessMap(users)
        fetched == fetch_table_records(rec, ref_records)
        records == fetched.value
        matched == MatchedEmails(records, access_map, lookups)
    IN
    /\ calls' = [access |-> IF doc_users_cache.hit THEN calls.access ELSE acc,
                 target |-> tgt, records |-> rec]
    /\ doc_users_cache' = CacheHit(users)
    /\ doc_users' = users
    /\ st_errors' = PrefetchErrors(tgt)
    /\ ref_lookups' = lookups
    /\ actual_access_map' = access_map
    /\ run_status' = IF fetched.raised THEN "exception" ELSE "done"
    /\ table_data' = IF fetched.raised THEN <<>>
                     ELSE TableData(records, access_map, lookups)
    /\ matched_emails' = IF fetched.raised THEN {} ELSE matched
    /\ orphans' = IF fetched.raised THEN <<>> ELSE Orphans(access_map, matched)
    /\ snapshot_stale' = (doc_users_cache.hit /\ snapshot_stale)
    /\ UNCHANGED <<platform_users, ref_records, users_table, people_table,
                   col_types, ref_res, man_ref, last_batch>>
    /\ UNCHANGED other_tabs

RunAudit ==
    \E acc \in AccessOutcomes, tgt \in FetchOutcomes, rec \in FetchOutcomes :
        RunAuditWith(acc, tgt, rec)

\* the sidebar button "Forcar Recarga Geral": st.cache_data.clear() and st.rerun()
ForceReload ==
    /\ doc_users_cache' = CacheMiss
    /\ calls' = NoCalls
    /\ doc_users' = <<>>
    /\ run_status' = "idle"
    /\ st_errors' = {}
    /\ ref_lookups' = EmptyMap
    /\ actual_access_map' = EmptyMap
    /\ table_data' = <<>>
    /\ matched_emails' = {}
    /\ orphans' = <<>>
    /\ snapshot_stale' = FALSE
    /\ UNCHANGED <<platform_users, ref_records, users_table, people_table,
                   col_types, ref_res, man_ref, last_batch>>
    /\ UNCHANGED other_tabs

Next == RunAudit \/ ForceReload

Spec == Init /\ [][Next]_vars

----------------------------------------------------------------------------
(* The cell-level specification: one reference row whose cell, or whose    *)
(* target cell, is any raw string of at most MaxStrLen characters; one     *)
(* explicit grant, under several spellings; all remote reads succeed.      *)

Chars == {"a", "A", " ", ","}

Strs == SeqsUpTo(Chars, MaxStrLen)

\* spellings of the email of the listing
Spellings == {<<"a">>, <<"A", " ">>, <<" ", "a">>, <<"a", ",", "A">>}

\* a literal cell: text, a list of one text item, with and without the marker
LiteralCells ==
    {PyStr(s) : s \in Strs}
    \cup {PyList(<<PyStr(s)>>) : s \in Strs}
    \cup {PyList(<<ListMarker, PyStr(s)>>) : s \in Strs}

\* a cell of the bound column: a single reference, lists of one reference
RefCells ==
    {PyInt(1), PyInt(2), PyList(<<PyInt(1)>>), PyList(<<ListMarker, PyInt(1)>>)}

\* <<reference table, target table>>
ResolveInputs ==
    {<<Records(<<Fields(PyNone, c, PyNone)>>), <<>>>> : c \in LiteralCells}
    \cup {<<Records(<<Fields(PyNone, PyNone, c)>>), <<Record(1, [Email |-> PyStr(s)])>>>> :
            c \in RefCells, s \in Strs}

InitResolve ==
    /\ platform_users \in {<<User(PyStr(s), Role("viewers"))>> : s \in Spellings}
    /\ \E inp \in ResolveInputs :
          /\ ref_records = inp[1]
          /\ users_table = inp[2]
    /\ DetectedConfig
    /\ doc_users_cache = CacheMiss
    /\ Idle
    /\ NoCorrection
    /\ OtherTabsUntouched

NextResolve == RunAuditWith("ok", "ok", "ok")

SpecResolve == InitResolve /\ [][NextResolve]_vars

----------------------------------------------------------------------------
(* The configuration-level specification: the declared types and the       *)
(* selectboxes of the bindings vary; the tables are fixed.                 *)

\* the columns of the tables of the document (get_columns)
TableCols == [Users |-> {"Email", "Alt"}, People |-> {"Mail"}]

\* declared types of c1 and c2: text and a Ref, both generic, text and a RefList
ColTypesPool ==
    {[c1 |-> ColType("Text", ""), c2 |-> ColType("Ref", "Users")],
     [c1 |-> ColType("Any", ""), c2 |-> ColType("Any", "")],
     [c1 |-> ColType("Text", ""), c2 |-> ColType("RefList", "Users")]}

\* the selectbox ref_res_{cid} exists for the columns of a Ref type only
RefResPool(types) ==
    {res \in [Range(email_col_ids) -> {NoChoice, "Email", "Alt"}] :
        \A c \in Range(email_col_ids) :
            res[c] # NoChoice => (IsRefType(types[c]) /\ res[c] \in TableCols[RefTable(types[c])])}

\* no column chosen, or a column, a table and one of its columns
ManRefPool ==
    {[col |-> NoChoice, table |-> NoChoice, target_col |-> NoChoice]}
    \cup {[col |-> c, table |-> t, target_col |-> k] :
            c \in Range(email_col_ids), t \in DOMAIN TableCols, k \in {"Email", "Alt", "Mail"}}

ConfigFieldsPool ==
    {Fields(PyStr(<<"T">>), PyInt(1), PyInt(1)),
     Fields(PyStr(<<"T">>), PyStr(<<"b">>), PyInt(3)),
     Fields(PyNone, PyInt(3), PyList(<<ListMarker, PyInt(1), PyInt(3)>>))}

ConfigUsers ==
    <<Record(1, [Email |-> PyStr(<<"A">>), Alt |-> PyStr(<<"b", " ">>)]),
      Record(2, [Email |-> PyNone, Alt |-> PyStr(<<"l">>)])>>

ConfigPeople ==
    <<Record(1, [Mail |-> PyStr(<<"b">>)]), Record(3, [Mail |-> PyStr(<<" ", "L">>)])>>

InitConfig ==
    /\ platform_users \in {<<uA, uB>>, <<uB, uL0>>}
    /\ ref_records \in {Records(<<f>>) : f \in ConfigFieldsPool}
    /\ users_table = ConfigUsers
    /\ people_table = ConfigPeople
    /\ col_types \in ColTypesPool
    /\ ref_res \in RefResPool(col_types)
    /\ man_ref \in {m \in ManRefPool : m.col # NoChoice => m.target_col \in TableCols[m.table]}
    /\ doc_users_cache = CacheMiss
    /\ Idle
    /\ NoCorrection
    /\ OtherTabsUntouched

NextConfig == RunAudit

SpecConfig == InitConfig /\ [][NextConfig]_vars

----------------------------------------------------------------------------
(* Corrections: the handlers of "Conceder Acesso Selecionado" and          *)
(* "Remover Acesso Selecionado", under the matrix of a run.                *)

\* mutant: a role given to an email that has it already takes it away
ApplyDeltaToggles(listing, email, role) ==
    LET Same(u) == IsStr(u.email) /\ NormEmail(u.email.s) = NormEmail(email)
        listed == \E k \in DOMAIN listing : Same(listing[k])
    IN IF listed
       THEN [k \in DOMAIN listing |->
               IF Same(listing[k])
               THEN User(listing[k].email, IF listing[k].access = role THEN PyNone ELSE role)
               ELSE listing[k]]
       ELSE IF role = PyNone THEN listing
       ELSE Append(listing, User(PyStr(email), role))

\* the platform applies {"delta": {"users": {email: role}}}: the entries of
\* that email (the platform compares emails without case) get the role;
\* a new entry is added for a role given to an unlisted email
ApplyDelta(listing, email, role) ==
    LET Same(u) == IsStr(u.email) /\ NormEmail(u.email.s) = NormEmail(email)
        listed == \E k \in DOMAIN listing : Same(listing[k])
    IN IF listed
       THEN [k \in DOMAIN listing |->
               IF Same(listing[k]) THEN User(listing[k].email, role) ELSE listing[k]]
       ELSE IF role = PyNone THEN listing
       ELSE Append(listing, User(PyStr(email), role))

\* update_doc_access: the PATCH of email.strip() and role; anything but a
\* 200, and any exception, returns (False, message)
update_doc_access(outcome, email, role) ==
    [answer |-> outcome, ok |-> outcome = "ok", email |-> Strip(email), role |-> role]

\* selected_rows = edited_df[edited_df["Selecionar"]]: the ticked rows, in
\* the order of the matrix, from row i on
RECURSIVE SelectedRows(_, _, _)
SelectedRows(rows, sel, i) ==
    IF i > Len(rows) THEN <<>>
    ELSE (IF i \in sel THEN <<rows[i]>> ELSE <<>>) \o SelectedRows(rows, sel, i + 1)

\* to_grant after the loop over the selected rows (json.loads gives back
\* the list of str that json.dumps was given)
RECURSIVE GatherGrant(_)
GatherGrant(rows) ==
    IF rows = <<>> THEN <<>>
    ELSE (IF Head(rows).type = "reference" THEN Head(rows).missing_emails ELSE <<>>)
         \o GatherGrant(Tail(rows))

\* mutant: the emails of the missing-lists are gathered for removal too
RECURSIVE GatherRevokeAlsoMissing(_)
GatherRevokeAlsoMissing(rows) ==
    IF rows = <<>> THEN <<>>
    ELSE (IF Head(rows).type = "orphan" /\ Truthy(Head(rows).orphan_email)
          THEN <<Head(rows).orphan_email.s>>
          ELSE Head(rows).missing_emails)
         \o GatherRevokeAlsoMissing(Tail(rows))

\* to_revoke after the loop over the selected rows
RECURSIVE GatherRevoke(_)
GatherRevoke(rows) ==
    IF rows = <<>> THEN <<>>
    ELSE (IF Head(rows).type = "orphan" /\ Truthy(Head(rows).orphan_email)
          THEN <<Head(rows).orphan_email.s>>
          ELSE <<>>)
         \o GatherRevoke(Tail(rows))

\* mutant: the gathered list is kept as it is, repeats included
ListOfSetKeepsRepeats(xs) == {xs}

\* list(set(xs)): the distinct elements of xs, in an order that the hashes
\* of the str decide: every order
ListOfSet(xs) ==
    {f \in [1..Cardinality(Range(xs)) -> Range(xs)] : Range(f) = Range(xs)}

\* mutant: the role of a grant is editors
GrantRoleEditors == Role("editors")

\* the role of every grant
GrantRole == Role("viewers")

\* the role of a removal
RevokeRole == PyNone

RECURSIVE UntilFailure(_)
UntilFailure(issued) ==
    IF issued = <<>> THEN <<>>
    ELSE IF Head(issued).ok THEN <<Head(issued)>> \o UntilFailure(Tail(issued))
    ELSE <<Head(issued)>>

\* mutant: the loop ends at the first call that fails
IssueAllStopsAtFailure(emails, role, failed) ==
    UntilFailure([i \in DOMAIN emails |->
        update_doc_access(IF emails[i] \in failed THEN "failed" ELSE "ok", emails[i], role)])

\* mutant: a call that fails is sent a second time
RECURSIVE IssueAllRetries(_, _, _)
IssueAllRetries(emails, role, failed) ==
    IF emails = <<>> THEN <<>>
    ELSE LET call == update_doc_access(IF Head(emails) \in failed THEN "failed" ELSE "ok",
                                       Head(emails), role)
         IN (IF call.ok THEN <<call>> ELSE <<call, call>>)
            \o IssueAllRetries(Tail(emails), role, failed)

\* for i, em in enumerate(emails): update_doc_access(..., em, role); the
\* calls of the emails in failed fail, and the loop goes on
IssueAll(emails, role, failed) ==
    [i \in DOMAIN emails |->
        update_doc_access(IF emails[i] \in failed THEN "failed" ELSE "ok", emails[i], role)]

\* the listing after the platform applied the calls it accepted, in order
RECURSIVE ApplyCalls(_, _)
ApplyCalls(listing, issued) ==
    IF issued = <<>> THEN listing
    ELSE ApplyCalls(IF Head(issued).ok
                    THEN ApplyDelta(listing, Head(issued).email, Head(issued).role)
                    ELSE listing,
                    Tail(issued))

\* st.rerun(): the page is drawn again, no button is pressed, no matrix
PageRedrawn ==
    /\ calls' = NoCalls
    /\ doc_users' = <<>>
    /\ run_status' = "idle"
    /\ st_errors' = {}
    /\ ref_lookups' = EmptyMap
    /\ actual_access_map' = EmptyMap
    /\ table_data' = <<>>
    /\ matched_emails' = {}
    /\ orphans' = <<>>

\* the calls of one batch and what follows them: st.success, st.rerun; the
\* cache of get_doc_users is left as it is (all_selected: every row of the
\* matrix was ticked)
Correct(kind, rows, emails, role, failed, message) ==
    LET issued == IssueAll(emails, role, failed) IN
    /\ platform_users' = ApplyCalls(platform_users, issued)
    /\ last_batch' = [kind |-> kind, rows |-> rows, all_selected |-> rows = table_data,
                      issued |-> issued, st_success |-> message]
    /\ snapshot_stale' = (doc_users_cache.hit
                           /\ (snapshot_stale \/ ApplyCalls(platform_users, issued) # platform_users))
    /\ PageRedrawn
    /\ UNCHANGED <<ref_records, users_table, people_table, col_types, ref_res,
                   man_ref, doc_users_cache>>
    /\ UNCHANGED other_tabs

\* sel: the rows that the editor returns as ticked, an input of the
\* handler; failed: the emails whose call fails
GrantSelected ==
    \E sel \in SUBSET DOMAIN table_data :
        LET selected_rows == SelectedRows(table_data, sel, 1) IN
        /\ run_status = "done"
        /\ selected_rows # <<>>
        /\ \E to_grant \in ListOfSet(GatherGrant(selected_rows)) :
              /\ to_grant # <<>>
              /\ \E failed \in SUBSET Range(to_grant) :
                    Correct("grant", selected_rows, to_grant, GrantRole, failed,
                            "Acessos concedidos!")

RevokeSelected ==
    \E sel \in SUBSET DOMAIN table_data :
        LET selected_rows == SelectedRows(table_data, sel, 1) IN
        /\ run_status = "done"
        /\ selected_rows # <<>>
        /\ \E to_revoke \in ListOfSet(GatherRevoke(selected_rows)) :
              /\ to_revoke # <<>>
              /\ \E failed \in SUBSET Range(to_revoke) :
                    Correct("revoke", selected_rows, to_revoke, RevokeRole, failed,
                            "Acessos removidos!")

\* listings: two explicit grants; one grant and an inherited access
CorrectListings == {<<uA, uB>>, <<uB, uL0>>}

\* reference tables: a row that names a and l and a row that names l
\* again; an empty row and a row that names l
CorrectRecordSets ==
    {Records(<<Fields(PyStr(<<"T">>), PyStr(<<"a", ",", " ", "L">>), PyInt(3)),
               Fields(PyStr(<<"U">>), PyStr(<<"l">>), PyInt(3))>>),
     Records(<<Fields(PyStr(<<"T">>), PyNone, PyInt(3)),
               Fields(PyNone, PyList(<<ListMarker, PyStr(<<"l">>)>>), PyInt(3))>>)}

InitCorrect ==
    /\ platform_users \in CorrectListings
    /\ ref_records \in CorrectRecordSets
    /\ users_table = <<Record(1, [Email |-> PyStr(<<"A">>)])>>
    /\ DetectedConfig
    /\ doc_users_cache = CacheMiss
    /\ Idle
    /\ NoCorrection
    /\ OtherTabsUntouched

\* a run whose reads of the tables succeed
RunAuditTablesRead == \E acc \in AccessOutcomes : RunAuditWith(acc, "ok", "ok")

NextCorrect == RunAuditTablesRead \/ ForceReload \/ GrantSelected \/ RevokeSelected

SpecCorrect == InitCorrect /\ [][NextCorrect]_vars

----------------------------------------------------------------------------
(* Runs over a target table that changes: the rows of Users are edited in  *)
(* the document, by anyone, while a matrix is on display.                  *)

\* the Users table before any edit
InitialUsers ==
    <<Record(1, [Email |-> PyStr(<<"A">>)]), Record(2, [Email |-> PyStr(<<"b", " ">>)])>>

EditTargetTable ==
    /\ run_status # "idle"
    /\ \E t \in UsersTables : t # users_table /\ users_table' = t
    /\ UNCHANGED <<platform_users, ref_records, people_table, col_types, ref_res,
                   man_ref, doc_users_cache, calls, doc_users, run_status,
                   st_errors, ref_lookups, actual_access_map, table_data,
                   matched_emails, orphans, last_batch, snapshot_stale>>
    /\ UNCHANGED other_tabs

InitLookup ==
    /\ platform_users = <<uA, uB>>
    /\ ref_records \in RecordSets
    /\ users_table = InitialUsers
    /\ DetectedConfig
    /\ doc_users_cache = CacheMiss
    /\ Idle
    /\ NoCorrection
    /\ OtherTabsUntouched

NextLookup == RunAudit \/ EditTargetTable

SpecLookup == InitLookup /\ [][NextLookup]_vars

----------------------------------------------------------------------------
(* Tab 4, "Enviar Regras": the rules of a document are replaced by the     *)
(* rules of a JSON text. A str field is a TLA+ string ("" for None and for *)
(* the empty str); a resource name is the sequence of its parts, as in     *)
(* <<"T", " [", "c", "]">>.                                                *)

\* most records of _grist_ACLRules, and of _grist_ACLResources, with which
\* "Enviar Regras" is pressed
MaxRules == 2

PostOutcomes == {"ok", "refused", "exception"}
WriteOutcomes == {"ok", "failed"}

\* v or d
Or(v, d) == IF v = "" THEN d ELSE v

\* d.get(k, default)
GetOr(d, k, default) == IF k \in DOMAIN d THEN d[k] ELSE default

\* f"{tid} [{cids}]" if cids != "*" else tid
ResourceName(tid, cids) == IF cids # "*" THEN <<tid, " [", cids, "]">> ELSE <<tid>>

\* res_map.get(res_id, "Geral/Desconhecido") of get_denormalized_rules
ResourceNameOf(resources_records, res_id) ==
    LET ks == {k \in DOMAIN resources_records : resources_records[k].id = res_id} IN
    IF ks = {} THEN <<"Geral/Desconhecido">>
    ELSE LET rf == resources_records[CHOOSE k \in ks : \A j \in ks : j <= k].fields
         IN ResourceName(Or(rf.tableId, "*"), Or(rf.colIds, "*"))

\* the display dict of one rule
Denormalized(rule, resources_records) ==
    [ID_Regra |-> rule.id,
     Recurso |-> ResourceNameOf(resources_records, rule.fields.resource),
     Condicao |-> Or(rule.fields.aclFormula, "(Sempre)"),
     Permissoes |-> rule.fields.permissionsText,
     Memo |-> Or(rule.fields.memo, ""),
     Posicao |-> rule.fields.rulePos]

\* denormalized.sort(key=Posicao): a stable sort
RECURSIVE SortByPos(_)
SortByPos(xs) ==
    IF xs = <<>> THEN <<>>
    ELSE LET ys == SortByPos(SubSeq(xs, 1, Len(xs) - 1))
             x == xs[Len(xs)]
             k == Cardinality({j \in DOMAIN ys : ys[j].Posicao <= x.Posicao})
         IN SubSeq(ys, 1, k) \o <<x>> \o SubSeq(ys, k + 1, Len(ys))

\* get_denormalized_rules: [] when a read is refused (st.error) and when no
\* rule was read (the two reads of one call end alike)
get_denormalized_rules(rd, rules, resources) ==
    LET rules_records == fetch_table_records(rd, rules)
        resources_records == fetch_table_records(rd, resources)
    IN IF rules_records.raised \/ rules_records.value = <<>> THEN <<>>
       ELSE SortByPos([k \in DOMAIN rules_records.value |->
                          Denormalized(rules_records.value[k], resources_records.value)])

\* backup_rules_locally: (True, filename) with the file written, or
\* (False, message)
backup_rules_locally(bk, rules_data) ==
    [ok |-> bk = "ok",
     file |-> IF bk = "ok" THEN [written |-> TRUE, content |-> rules_data]
              ELSE [written |-> FALSE, content |-> <<>>]]

\* an id that no record of the table has
NewId(recs) ==
    LET ids == {recs[k].id : k \in DOMAIN recs} IN
    IF ids = {} THEN 1 ELSE 1 + (CHOOSE m \in ids : \A n \in ids : n <= m)

\* res_map of apply_denormalized_rules: (tableId or '*', colIds or '*') -> id
\* of the last such record
RECURSIVE BuildResMap(_)
BuildResMap(all_res) ==
    IF all_res = <<>> THEN EmptyMap
    ELSE LET r == all_res[Len(all_res)] IN
         MapPut(BuildResMap(SubSeq(all_res, 1, Len(all_res) - 1)),
                <<Or(r.fields.tableId, "*"), Or(r.fields.colIds, "*")>>, r.id)

\* tid and cids of a resource name
ParseResource(r_str) ==
    IF (\E k \in DOMAIN r_str : r_str[k] = " [") /\ r_str[Len(r_str)] = "]"
    THEN [tid |-> r_str[1], cids |-> r_str[3]]
    ELSE [tid |-> r_str[1], cids |-> "*"]

\* a request sent to the platform and how it ended
Request(req, answer) == [req |-> req, answer |-> answer]

\* the loop over new_rules_json from rule i on. acc: res_map, the resources
\* of the document, records_to_add and the requests sent so far; crt: how a
\* request that creates a resource ends
RECURSIVE AddRecords(_, _, _, _)
AddRecords(new_rules_json, i, acc, crt) ==
    IF i > Len(new_rules_json) THEN acc
    ELSE LET rule == new_rules_json[i]
             parsed == ParseResource(GetOr(rule, "Recurso", <<"Geral">>))
             key == <<parsed.tid, parsed.cids>>
             known == key \in DOMAIN acc.res_map
             new_id == NewId(acc.resources)
             res_id == IF known THEN acc.res_map[key] ELSE new_id
             record == [resource |-> res_id,
                        aclFormula |-> GetOr(rule, "Condicao", ""),
                        permissionsText |-> GetOr(rule, "Permissoes", ""),
                        memo |-> GetOr(rule, "Memo", ""),
                        rulePos |-> i]
         IN IF known
            THEN AddRecords(new_rules_json, i + 1,
                            [acc EXCEPT !.records = Append(@, record)], crt)
            ELSE IF crt = "ok"
            THEN AddRecords(new_rules_json, i + 1,
                            [acc EXCEPT !.res_map = MapPut(@, key, new_id),
                                        !.resources = Append(@, Record(new_id,
                                            [tableId |-> parsed.tid, colIds |-> parsed.cids])),
                                        !.records = Append(@, record),
                                        !.issued = Append(@, Request("create", crt))], crt)
            ELSE [acc EXCEPT !.raised = TRUE, !.issued = Append(@, Request("create", crt))]

\* the records a request inserts get ids that the table does not hold
RECURSIVE Inserted(_, _)
Inserted(recs, records_to_add) ==
    IF records_to_add = <<>> THEN recs
    ELSE Inserted(Append(recs, Record(NewId(recs), Head(records_to_add))),
                  Tail(records_to_add))

\* apply_denormalized_rules: the rules read are deleted, the resources of
\* the new rules are found or created, the new rules are inserted; the
\* answers to the delete and to the insert are not looked at. cur: the reads
\* (a refused read raises PermissionError); del, crt, ins: the requests (an
\* exception of requests.post is raised and the request not applied)
apply_denormalized_rules(rules, resources, new_rules_json, cur, del, crt, ins) ==
    LET current == fetch_table_records(cur, rules)
        del_sent == current.value # <<>>
        ids_to_del == {current.value[k].id : k \in DOMAIN current.value}
        issued_del == IF del_sent THEN <<Request("delete", del)>> ELSE <<>>
        rules_del == IF del_sent /\ del = "ok"
                     THEN SelectSeq(rules, LAMBDA r : r.id \notin ids_to_del)
                     ELSE rules
        all_res == fetch_table_records(cur, resources).value
        added == AddRecords(new_rules_json, 1,
                            [res_map |-> BuildResMap(all_res), resources |-> resources,
                             records |-> <<>>, issued |-> issued_del, raised |-> FALSE],
                            crt)
        ins_sent == added.records # <<>>
    IN IF current.raised
       THEN [raised |-> TRUE, rules |-> rules, resources |-> resources, issued |-> <<>>]
       ELSE IF del_sent /\ del = "exception"
       THEN [raised |-> TRUE, rules |-> rules, resources |-> resources,
             issued |-> issued_del]
       ELSE IF added.raised
       THEN [raised |-> TRUE, rules |-> rules_del, resources |-> added.resources,
             issued |-> added.issued]
       ELSE [raised |-> ins_sent /\ ins = "exception",
             rules |-> IF ins_sent /\ ins = "ok"
                       THEN Inserted(rules_del, added.records) ELSE rules_del,
             resources |-> added.resources,
             issued |-> added.issued
                        \o (IF ins_sent THEN <<Request("insert", ins)>> ELSE <<>>)]

\* a press of a button of another tab: the script runs again, the matrix
\* of tab 6 is not drawn; cleared: st.cache_data.clear() was called
OtherTabPressed(cleared) ==
    /\ PageRedrawn
    /\ doc_users_cache' = IF cleared THEN CacheMiss ELSE doc_users_cache
    /\ snapshot_stale' = (~cleared /\ snapshot_stale)
    /\ UNCHANGED <<platform_users, ref_records, users_table, people_table,
                   col_types, ref_res, man_ref, last_batch>>

\* what the press left behind
Sent(edit_json, before, file, issued, result) ==
    [supplied |-> IF edit_json.kind = "rules" THEN edit_json.rules ELSE <<>>,
     before |-> before, backup |-> file, issued |-> issued, result |-> result]

\* the handler of "Enviar Regras" for the text edit_json
SendRulesWith(edit_json, rd, bk, cur, del, crt, ins) ==
    LET current_data == get_denormalized_rules(rd, acl_rules, acl_resources)
        bkp == backup_rules_locally(bk, current_data)
        applied == apply_denormalized_rules(acl_rules, acl_resources, edit_json.rules,
                                            cur, del, crt, ins)
    IN
    /\ Len(acl_rules) <= MaxRules
    /\ Len(acl_resources) <= MaxRules
    /\ IF edit_json.kind # "rules"
       THEN \* st.error("JSON vazio!"), st.error("Erro no JSON: ...")
            /\ rules_tab' = Sent(edit_json, acl_rules, NoSend.backup, <<>>, edit_json.kind)
            /\ UNCHANGED <<acl_rules, acl_resources>>
            /\ OtherTabPressed(FALSE)
       ELSE IF ~bkp.ok
       THEN \* st.error("Falha no backup: ... Operacao abortada.")
            /\ rules_tab' = Sent(edit_json, acl_rules, bkp.file, <<>>, "backup_failed")
            /\ UNCHANGED <<acl_rules, acl_resources>>
            /\ OtherTabPressed(FALSE)
       ELSE \* st.error("Erro ao aplicar regras: ...") when apply raised, else
            \* st.success("Regras atualizadas com sucesso!") and the cache cleared
            /\ rules_tab' = Sent(edit_json, acl_rules, bkp.file, applied.issued,
                                 IF applied.raised THEN "error" ELSE "success")
            /\ acl_rules' = applied.rules
            /\ acl_resources' = applied.resources
            /\ OtherTabPressed(~applied.raised)
    /\ UNCHANGED <<docs_users, mapped_data, last_move>>

\* the texts of the editor: empty, not JSON, lists of rules
N1 == [Recurso |-> <<"T">>, Condicao |-> "user.Access == OWNER", Permissoes |-> "all", Memo |-> "m"]
N2 == [Condicao |-> "", Permissoes |-> "-S"]
N3 == [Recurso |-> <<"T", " [", "c", "]">>, Condicao |-> "", Permissoes |-> "+R", Memo |-> ""]

EditJsons ==
    {[kind |-> "empty"], [kind |-> "invalid"]}
    \cup {[kind |-> "rules", rules |-> rs] : rs \in {<<>>, <<N1>>, <<N3, N2>>}}

SendRules ==
    \E edit_json \in EditJsons, rd \in FetchOutcomes, bk \in WriteOutcomes,
       cur \in FetchOutcomes, del \in PostOutcomes, crt \in PostOutcomes,
       ins \in PostOutcomes :
        SendRulesWith(edit_json, rd, bk, cur, del, crt, ins)

\* a document with one rule for the whole of table T, and tab 6 unused
InitRules ==
    /\ acl_resources = <<Record(1, [tableId |-> "T", colIds |-> "*"])>>
    /\ acl_rules = <<Record(1, [resource |-> 1, aclFormula |-> "",
                                permissionsText |-> "none", memo |-> "",
                                rulePos |-> 1])>>
    /\ rules_tab = NoSend
    /\ NoMapping
    /\ platform_users = <<>>
    /\ ref_records = <<>>
    /\ users_table = <<>>
    /\ DetectedConfig
    /\ doc_users_cache = CacheMiss
    /\ Idle
    /\ NoCorrection

NextRules == SendRules

SpecRules == InitRules /\ [][NextRules]_vars

----------------------------------------------------------------------------
(* Tab 2, "Mapeamento de Documentos": the listings of the documents are    *)
(* read into one table, and the rows ticked in it are copied or moved to a *)
(* destination document. A role name and " (Herdado)" are single parts of  *)
(* a label.                                                                *)

\* most bulk operations of one session
MaxBulk == 1

\* the documents of the organisation (their names are their ids)
MoveDocs == <<"d1", "d2">>

\* acc = u.get('access') or f"{u.get('parentAccess')} (Herdado)"
AccessLabel(u) ==
    IF Truthy(u.access) THEN u.access.s
    ELSE LET parent == DictGet(u, "parentAccess") IN
         (IF IsStr(parent) THEN parent.s ELSE <<"None">>) \o <<" (Herdado)">>

\* the rows of one document: one per listed user, or one placeholder when
\* the listing is empty or could not be read
RowsOfDoc(doc, users) ==
    IF users = <<>>
    THEN <<[Doc_ID |-> doc, Email |-> <<"-">>, Nivel_de_Acesso |-> <<"Indefinido">>]>>
    ELSE [k \in DOMAIN users |->
            [Doc_ID |-> doc,
             Email |-> IF Truthy(users[k].email) THEN Strip(users[k].email.s) ELSE <<>>,
             Nivel_de_Acesso |-> AccessLabel(users[k])]]

\* consolidated: the rows of the documents from document i on; accs[i]: how
\* the read of the listing of document i ends
RECURSIVE Consolidated(_, _)
Consolidated(i, accs) ==
    IF i > Len(MoveDocs) THEN <<>>
    ELSE RowsOfDoc(MoveDocs[i],
                   get_doc_users(accs[i], CacheMiss, docs_users[MoveDocs[i]]))
         \o Consolidated(i + 1, accs)

\* the handler of "Iniciar/Atualizar Mapeamento" (the listings of these
\* documents are not in the cache: every bulk operation clears it)
StartMapping ==
    \E accs \in [DOMAIN MoveDocs -> AccessOutcomes] :
        /\ mapped_data' = Consolidated(1, accs)
        /\ OtherTabPressed(FALSE)
        /\ UNCHANGED <<docs_users, last_move, acl_rules, acl_resources, rules_tab>>

\* sub in part.lower(), for the parts of a label
PartContains(part, sub) ==
    <<part, sub>> \in {<<"owners", "owner">>, <<"viewers", "viewer">>,
                       <<"editors", "editor">>}

\* sub in label.lower()
LabelContains(label, sub) == \E k \in DOMAIN label : PartContains(label[k], sub)

\* the role a row is copied with
RoleOfLabel(label) ==
    IF LabelContains(label, "owner") THEN Role("owners")
    ELSE IF LabelContains(label, "viewer") THEN Role("viewers")
    ELSE Role("editors")

\* the PATCH requests of the loop over the selected rows, in order: the role
\* on the destination, and for a move the removal from the document of the
\* row
RECURSIVE BulkRequests(_, _, _)
BulkRequests(kind, selected, target_id) ==
    IF selected = <<>> THEN <<>>
    ELSE LET row == Head(selected) IN
         <<[doc |-> target_id, email |-> row.Email,
            role |-> RoleOfLabel(row.Nivel_de_Acesso)]>>
         \o (IF kind = "move"
             THEN <<[doc |-> row.Doc_ID, email |-> row.Email, role |-> PyNone]>>
             ELSE <<>>)
         \o BulkRequests(kind, Tail(selected), target_id)

\* the calls of update_doc_access for the requests; those in failed fail
BulkCalls(requests, failed) ==
    [k \in DOMAIN requests |->
        [doc |-> requests[k].doc,
         call |-> update_doc_access(IF k \in failed THEN "failed" ELSE "ok",
                                    requests[k].email, requests[k].role)]]

\* the listings after the platform applied the calls it accepted, in order
RECURSIVE ApplyBulkCalls(_, _)
ApplyBulkCalls(listings, issued) ==
    IF issued = <<>> THEN listings
    ELSE ApplyBulkCalls(
            IF Head(issued).call.ok
            THEN [listings EXCEPT ![Head(issued).doc] =
                     ApplyDelta(@, Head(issued).call.email, Head(issued).call.role)]
            ELSE listings,
            Tail(issued))

\* the handlers of "Copiar" and "Mover": sel are the ticked rows of the
\* table (whatever the filters show), dest the chosen destination; then
\* st.toast, st.cache_data.clear() and st.rerun(). before and n are
\* history: the listings before the operation, the operations so far
Bulk(kind) ==
    \E sel \in SUBSET DOMAIN mapped_data, dest \in Range(MoveDocs) :
        LET selected == SelectedRows(mapped_data, sel, 1)
            requests == BulkRequests(kind, selected, dest)
        IN
        /\ last_move.n < MaxBulk
        /\ selected # <<>>
        /\ \E failed \in SUBSET DOMAIN requests :
              LET issued == BulkCalls(requests, failed) IN
              /\ docs_users' = ApplyBulkCalls(docs_users, issued)
              /\ last_move' = [kind |-> kind, rows |-> selected, dest |-> dest,
                               before |-> docs_users, issued |-> issued,
                               n |-> last_move.n + 1]
        /\ OtherTabPressed(TRUE)
        /\ UNCHANGED <<mapped_data, acl_rules, acl_resources, rules_tab>>

BulkCopy == Bulk("copy")

BulkMove == Bulk("move")

\* two documents: a with an explicit role on both, b on the first only
InitMove ==
    /\ docs_users = [d1 |-> <<uA, uB>>, d2 |-> <<User(PyStr(<<"a">>), Role("editors"))>>]
    /\ mapped_data = <<>>
    /\ last_move = NoMove
    /\ NoRules
    /\ platform_users = <<>>
    /\ ref_records = <<>>
    /\ users_table = <<>>
    /\ DetectedConfig
    /\ doc_users_cache = CacheMiss
    /\ Idle
    /\ NoCorrection

NextMove == StartMapping \/ BulkCopy \/ BulkMove

SpecMove == InitMove /\ [][NextMove]_vars

----------------------------------------------------------------------------
(* What a run shows. *)

Done == run_status = "done"

\* the rows of the matrix that come from reference records
ReferenceRows == {i \in DOMAIN table_data : table_data[i].type = "reference"}

OrphanRows == {i \in DOMAIN table_data : table_data[i].type = "orphan"}

\* the indicators of row i in column c
Display(i, c) == table_data[i].cells[c]

\* the emails resolved from the cell of row i in column c
Resolved(i, c) == {Display(i, c)[k].email : k \in DOMAIN Display(i, c)}

Cols == Range(email_col_ids)

\* the emails of the snapshot
SnapshotEmails == DOMAIN actual_access_map

\* the emails shown with the "present" indicator
ShownPresent ==
    {e \in UNION {Resolved(i, c) : i \in ReferenceRows, c \in Cols} :
        \E i \in ReferenceRows, c \in Cols :
            \E k \in DOMAIN Display(i, c) :
                Display(i, c)[k] = [mark |-> "present", email |-> e]}

----------------------------------------------------------------------------
(* C1: after a run every email of the snapshot is in exactly one of       *)
(* matched and orphans: orphans is the snapshot's keys minus matched, and *)
(* matched is what the reference rows showed as present.                  *)
C1_Partition ==
    Done =>
        /\ matched_emails \cap Range(orphans) = {}
        /\ matched_emails \cup Range(orphans) = SnapshotEmails
        /\ matched_emails = ShownPresent
        /\ {table_data[i].orphan_email : i \in OrphanRows} = {PyStr(o) : o \in Range(orphans)}

C1_Witness ==
    /\ Done
    /\ Cardinality(ReferenceRows) >= 2
    /\ matched_emails # {}
    /\ orphans # <<>>

(* C2: every email resolved from a cell is shown present and matched, and *)
(* kept out of the row's missing-list, when it is a key of the snapshot;  *)
(* otherwise it is shown missing and is in the row's missing-list. Every  *)
(* email of a missing-list is absent from the snapshot.                   *)
C2_Classification ==
    Done =>
        \A i \in ReferenceRows :
            /\ \A c \in Cols : \A k \in DOMAIN Display(i, c) :
                  LET d == Display(i, c)[k] IN
                  IF d.email \in SnapshotEmails
                  THEN /\ d.mark = "present"
                       /\ d.email \in matched_emails
                       /\ d.email \notin Range(table_data[i].missing_emails)
                  ELSE /\ d.mark = "missing"
                       /\ d.email \in Range(table_data[i].missing_emails)
            /\ \A e \in Range(table_data[i].missing_emails) :
                  /\ e \notin SnapshotEmails
                  /\ \E c \in Cols : e \in Resolved(i, c)

C2_Witness ==
    /\ Done
    /\ \E i \in ReferenceRows : \E c \in Cols :
          \E k, m \in DOMAIN Display(i, c) :
              /\ Display(i, c)[k].mark = "present"
              /\ Display(i, c)[m].mark = "missing"
              /\ table_data[i].missing_emails # <<>>

\* the entries of the listing that give email e an explicit role
ExplicitEntries(e) ==
    {k \in DOMAIN doc_users :
        /\ doc_users[k].email.t = "str"
        /\ Lower(Strip(doc_users[k].email.s)) = e
        /\ doc_users[k].access # PyNone}

(* C3: an email is a key of the snapshot only if the listing gives it a   *)
(* non-null role; an email listed with null roles only is no key, is not  *)
(* matched and is not an orphan.                                          *)
C3_ExplicitOnly ==
    run_status # "idle" =>
        /\ \A e \in SnapshotEmails : ExplicitEntries(e) # {}
        /\ \A k \in DOMAIN doc_users :
              LET e == Lower(Strip(doc_users[k].email.s)) IN
              ExplicitEntries(e) = {} =>
                  /\ e \notin SnapshotEmails
                  /\ e \notin matched_emails
                  /\ e \notin Range(orphans)
                  /\ \A i \in OrphanRows : table_data[i].orphan_email # PyStr(e)

\* an inherited-only email that a reference cell designates, beside an
\* explicit grant that became an orphan
C3_Witness ==
    /\ Done
    /\ orphans # <<>>
    /\ \E k \in DOMAIN doc_users :
          LET e == Lower(Strip(doc_users[k].email.s)) IN
          /\ doc_users[k].access = PyNone
          /\ ExplicitEntries(e) = {}
          /\ \E i \in ReferenceRows : e \in Range(table_data[i].missing_emails)

----------------------------------------------------------------------------
(* What the reference data designates, as written. *)

\* the Email cell of the record n of the target table, None without one
TargetValue(n) ==
    IF \E k \in DOMAIN users_table : users_table[k].id = n
    THEN LET k == CHOOSE k \in DOMAIN users_table : users_table[k].id = n IN
         DictGet(users_table[k].fields, ref_configs.c2.target_col)
    ELSE PyNone

\* the items of a list cell after its marker
ItemsAfterMarker(xs) ==
    IF xs # <<>> /\ Head(xs) = ListMarker THEN Tail(xs) ELSE xs

\* the text one reference stands for, as written in the target table
RawOfRef(n) == IF IsStr(TargetValue(n)) THEN {TargetValue(n).s} ELSE {}

\* the emails, as written, that the cell v of column c designates: the
\* comma-separated parts of a text, the text items of a list, the target
\* text of a reference
RawEmails(v, c) ==
    CASE IsStr(v) -> Range(SplitComma(v.s))
      [] IsList(v) ->
            LET items == ItemsAfterMarker(v.xs) IN
            UNION {IF IsStr(items[k]) THEN {items[k].s}
                   ELSE IF IsInt(items[k]) /\ c \in DOMAIN ref_lookups
                        THEN RawOfRef(items[k].n)
                        ELSE {} : k \in DOMAIN items}
      [] IsInt(v) ->
            IF c \in DOMAIN ref_lookups
            THEN UNION {Range(SplitComma(r)) : r \in RawOfRef(v.n)}
            ELSE {}
      [] OTHER -> {}

\* x and y differ at most in letter case and in leading or trailing blanks
SameEmail(x, y) ==
    LET sx == Strip(x)
        sy == Strip(y)
    IN /\ Len(sx) = Len(sy)
       /\ \A k \in 1..Len(sx) : LowerChar(sx[k]) = LowerChar(sy[k])

Blank(x) == Strip(x) = <<>>

\* the entries of the listing with an email and a non-null role
Granted ==
    {k \in DOMAIN doc_users :
        /\ IsStr(doc_users[k].email)
        /\ ~Blank(doc_users[k].email.s)
        /\ doc_users[k].access # PyNone}

(* C4: an email of the snapshot and an email a reference cell designates  *)
(* (text, list item, or through the binding) that differ only in letter   *)
(* case or surrounding blanks are one email: it is matched, it is no      *)
(* orphan and it is in no missing-list.                                   *)
C4_CaseAndBlankInsensitive ==
    Done =>
        \A k \in Granted : \A i \in ReferenceRows : \A c \in Cols :
            \A x \in RawEmails(ref_records[i].fields[c], c) :
                SameEmail(doc_users[k].email.s, x) =>
                    /\ \E m \in matched_emails : SameEmail(m, x)
                    /\ \A o \in Range(orphans) : ~SameEmail(o, x)
                    /\ \A e \in Range(table_data[i].missing_emails) : ~SameEmail(e, x)

\* the grant and the target text of a reference are spelled differently
C4_Witness ==
    /\ Done
    /\ ref_records[1].fields.c2 = PyInt(1)
    /\ \E k \in Granted : \E x \in RawEmails(ref_records[1].fields.c2, "c2") :
          /\ SameEmail(doc_users[k].email.s, x)
          /\ doc_users[k].email.s # x
          /\ Lower(x) # x
          /\ Strip(doc_users[k].email.s) # doc_users[k].email.s
    /\ matched_emails # {}

(* C5 as claimed: when the access listing call fails the run aborts and   *)
(* shows no classification.                                               *)
C5_AbortsOnListingFailure ==
    calls.access = "failed" => (run_status # "done" /\ table_data = <<>>)

(* C6 as claimed: when the read of a bound target table fails the run     *)
(* aborts; it never goes on to classify.                                  *)
C6_AbortsOnLookupFailure ==
    calls.target \in {"denied", "error"} => (run_status # "done" /\ table_data = <<>>)

\* the foreign-row ids of a cell of a bound column
RefIds(v) ==
    CASE IsInt(v) -> {v.n}
      [] IsList(v) -> {ItemsAfterMarker(v.xs)[k].n :
                         k \in {k \in DOMAIN ItemsAfterMarker(v.xs) :
                                  IsInt(ItemsAfterMarker(v.xs)[k])}}
      [] OTHER -> {}

\* cell v is made of foreign-row ids only
OnlyRefs(v) ==
    \/ IsInt(v)
    \/ IsList(v) /\ \A k \in DOMAIN ItemsAfterMarker(v.xs) : IsInt(ItemsAfterMarker(v.xs)[k])

(* C7: a cell of a bound column whose ids are absent from the column's    *)
(* lookup table resolves to nothing, without an error: the row gets no    *)
(* indicator, no matched email and no missing entry from it, and the run  *)
(* goes on to a row for every record.                                     *)
C7_AbsentIdResolvesToNothing ==
    (run_status # "idle" /\ calls.records = "ok") =>
        /\ Done
        /\ ReferenceRows = DOMAIN ref_records
        /\ \A i \in ReferenceRows : \A c \in DOMAIN ref_lookups :
              LET v == ref_records[i].fields[c] IN
              /\ (OnlyRefs(v) /\ RefIds(v) \cap DOMAIN ref_lookups[c] = {}) =>
                    /\ Display(i, c) = <<>>
                    /\ \A e \in Range(table_data[i].missing_emails) :
                          \E c2 \in Cols \ {c} : e \in Resolved(i, c2)
              /\ (OnlyRefs(v) /\ IsList(v)) =>
                    Resolved(i, c) \subseteq
                        {ref_lookups[c][n] : n \in RefIds(v) \cap DOMAIN ref_lookups[c]}

\* a single reference to an absent id, in a row between other rows
C7_Witness ==
    /\ Done
    /\ "c2" \in DOMAIN ref_lookups
    /\ DOMAIN ref_lookups.c2 # {}
    /\ \E i \in ReferenceRows :
          /\ IsInt(ref_records[i].fields.c2)
          /\ ref_records[i].fields.c2.n \notin DOMAIN ref_lookups.c2
          /\ i < Len(ref_records)
          /\ Display(i + 1, "c2") # <<>>

(* C8 as claimed: in a bound column a list of ids resolves to the union   *)
(* of what each id resolves to as a single reference.                     *)
C8_ListIsUnionOfSingles ==
    Done =>
        \A j \in ReferenceRows : \A c \in DOMAIN ref_lookups :
            LET v == ref_records[j].fields[c]
                Single(n) == {i \in ReferenceRows : ref_records[i].fields[c] = PyInt(n)}
            IN (IsList(v) /\ OnlyRefs(v) /\ \A n \in RefIds(v) : Single(n) # {}) =>
                   Resolved(j, c) =
                       UNION {Resolved(i, c) : i \in UNION {Single(n) : n \in RefIds(v)}}

\* the columns whose type is not a reference
LiteralCols == Cols \ DOMAIN ref_configs

\* the trimmed, lower-cased parts of s split at commas
TrimmedLowerParts(s) == {Lower(Strip(p)) : p \in Range(SplitComma(s))}

(* C9 as claimed: in a column that is not a reference a text cell         *)
(* resolves to exactly its trimmed, lower-cased parts split at commas.    *)
C9_SplitAtCommas ==
    Done =>
        \A i \in ReferenceRows : \A c \in LiteralCols :
            LET v == ref_records[i].fields[c] IN
            IsStr(v) => Resolved(i, c) = TrimmedLowerParts(v.s)

(* C9, amended: a non-empty text cell resolves to exactly its trimmed,    *)
(* lower-cased parts split at commas; the empty text resolves to nothing. *)
C9_SplitAtCommasNonEmpty ==
    Done =>
        \A i \in ReferenceRows : \A c \in LiteralCols :
            LET v == ref_records[i].fields[c] IN
            IsStr(v) =>
                Resolved(i, c) = IF v.s = <<>> THEN {} ELSE TrimmedLowerParts(v.s)

\* a text of two parts, one of them with a capital and a blank
C9_Witness ==
    /\ Done
    /\ \E i \in ReferenceRows :
          /\ ref_records[i].fields.c1 = PyStr(<<"A", ",", " ">>)
          /\ Cardinality(Resolved(i, "c1")) = 2

(* C10: the leading marker of a list cell is dropped and never classified: *)
(* a list of text items resolves to its items after the marker, one by     *)
(* one, and a list with the marker resolves to what the same list without  *)
(* it resolves to.                                                         *)
C10_MarkerDiscarded ==
    Done =>
        /\ \A i \in ReferenceRows : \A c \in Cols :
              LET v == ref_records[i].fields[c] IN
              IsList(v) =>
                  LET items == ItemsAfterMarker(v.xs) IN
                  /\ Len(Display(i, c)) <= Len(items)
                  /\ (\A k \in DOMAIN items : IsStr(items[k])) =>
                        /\ Len(Display(i, c)) = Len(items)
                        /\ \A k \in DOMAIN items :
                              Display(i, c)[k].email = Lower(Strip(items[k].s))
        /\ \A i, j \in ReferenceRows : \A c \in Cols :
              LET v == ref_records[i].fields[c]
                  w == ref_records[j].fields[c]
              IN (/\ IsList(v) /\ IsList(w)
                  /\ v.xs = <<ListMarker>> \o w.xs
                  /\ (w.xs = <<>> \/ Head(w.xs) # ListMarker)) =>
                     Resolved(i, c) = Resolved(j, c)

\* one run with a list under the marker and the same list without it
C10_Witness ==
    /\ Done
    /\ \E i, j \in ReferenceRows :
          /\ IsList(ref_records[j].fields.c1)
          /\ ref_records[i].fields.c1 = PyList(<<ListMarker>> \o ref_records[j].fields.c1.xs)
          /\ Head(ref_records[j].fields.c1.xs) # ListMarker
          /\ Resolved(i, "c1") # {}

----------------------------------------------------------------------------
(* Bindings. *)

\* the records of the table named t
TableNamed(t) == IF t = "Users" THEN users_table ELSE people_table

\* the records of table t whose column k holds a text
WithText(t, k) ==
    {i \in DOMAIN TableNamed(t) :
        /\ k \in DOMAIN TableNamed(t)[i].fields
        /\ IsStr(TableNamed(t)[i].fields[k])
        /\ TableNamed(t)[i].fields[k].s # <<>>}

\* the type of column c yields a binding of its own
AutoDetected(c) == col_types[c].kind = "Ref" /\ ref_res[c] # NoChoice

(* C11: the lookup table of a column with a manual binding is built from   *)
(* the table and the column the manual binding names (row id to the       *)
(* trimmed, lower-cased text), whether the declared type of the column    *)
(* is a reference or not, and whether or not a binding was detected from  *)
(* the type.                                                              *)
C11_ManualBindingOverrides ==
    (run_status # "idle" /\ calls.target = "ok") =>
        \A c \in Cols :
            man_ref.col = c =>
                /\ c \in DOMAIN ref_lookups
                /\ DOMAIN ref_lookups[c] =
                      {TableNamed(man_ref.table)[i].id : i \in WithText(man_ref.table, man_ref.target_col)}
                /\ \A i \in WithText(man_ref.table, man_ref.target_col) :
                      ref_lookups[c][TableNamed(man_ref.table)[i].id] =
                          Lower(Strip(TableNamed(man_ref.table)[i].fields[man_ref.target_col].s))

\* a detected binding to Users and a manual binding of the same column to
\* People, through which a cell was resolved
C11_Witness ==
    /\ Done
    /\ man_ref.col = "c2"
    /\ AutoDetected("c2")
    /\ man_ref.table = "People"
    /\ \E i \in ReferenceRows :
          /\ ref_records[i].fields.c2 = PyInt(3)
          /\ Resolved(i, "c2") = {<<"l">>}

----------------------------------------------------------------------------
(* The rows of the matrix. *)

\* x comes before y in the alphabet: at the first place where they differ
\* x ends, or x has the smaller character
Alphabetical(x, y) ==
    \E k \in 1..(Len(y)) :
        /\ k <= Len(x) + 1
        /\ \A j \in 1..(k - 1) : x[j] = y[j]
        /\ (k = Len(x) + 1 \/ Ord(x[k]) < Ord(y[k]))

\* the emails a literal cell names, in normal form
LiteralEmails(v) ==
    CASE IsStr(v) -> IF v.s = <<>> THEN {} ELSE TrimmedLowerParts(v.s)
      [] IsList(v) -> {Lower(Strip(ItemsAfterMarker(v.xs)[k].s)) :
                         k \in {k \in DOMAIN ItemsAfterMarker(v.xs) :
                                  IsStr(ItemsAfterMarker(v.xs)[k])}}
      [] OTHER -> {}

\* the title a record shows
TitleOf(r) == IF r.fields.title = PyNone THEN PyStr(<<>>) ELSE r.fields.title

(* C12: the rows of a run are the reference rows, one per record and in   *)
(* the order of the records, followed by the orphan rows in ascending     *)
(* order of their email; no orphan row precedes a reference row.          *)
C12_RowOrder ==
    (Done /\ calls.records = "ok") =>
        /\ Len(table_data) >= Len(ref_records)
        /\ \A i \in 1..Len(ref_records) :
              /\ table_data[i].type = "reference"
              /\ table_data[i].title = TitleOf(ref_records[i])
              /\ Resolved(i, "c1") = LiteralEmails(ref_records[i].fields.c1)
        /\ \A i \in (Len(ref_records) + 1)..Len(table_data) :
              table_data[i].type = "orphan"
        /\ \A i, j \in OrphanRows :
              i < j => Alphabetical(table_data[i].orphan_email.s, table_data[j].orphan_email.s)

\* two different reference rows, then two orphan rows
C12_Witness ==
    /\ Done
    /\ Len(ref_records) = 2
    /\ table_data[1].title # table_data[2].title
    /\ Resolved(1, "c1") # Resolved(2, "c1")
    /\ Cardinality(OrphanRows) >= 2

\* the emails with an explicit role that no reference cell shows
Unreferenced == SnapshotEmails \ UNION {Resolved(i, c) : i \in ReferenceRows, c \in Cols}

(* C13: there is exactly one orphan row for every orphan email and none   *)
(* for any other email; an orphan row has a blank title, the orphan in    *)
(* the first email column, nothing in the other email columns, an empty   *)
(* missing-list and the kind orphan.                                      *)
C13_OrphanRows ==
    Done =>
        /\ \A e \in Unreferenced :
              Cardinality({i \in OrphanRows : table_data[i].orphan_email = PyStr(e)}) = 1
        /\ \A i \in OrphanRows :
              /\ table_data[i].orphan_email.t = "str"
              /\ table_data[i].orphan_email.s \in Unreferenced
              /\ table_data[i].title = PyStr(<<>>)
              /\ Len(Display(i, email_col_ids[1])) = 1
              /\ Display(i, email_col_ids[1])[1].email = table_data[i].orphan_email.s
              /\ Display(i, email_col_ids[1])[1].mark = "orphan"
              /\ \A k \in 2..Len(email_col_ids) : Display(i, email_col_ids[k]) = <<>>
              /\ table_data[i].missing_emails = <<>>

\* orphan rows under reference rows that show a present and a missing email
C13_Witness ==
    /\ Done
    /\ Cardinality(OrphanRows) >= 1
    /\ matched_emails # {}
    /\ \E i \in ReferenceRows : table_data[i].missing_emails # <<>>

\* the cell v holds nothing
EmptyCell(v) ==
    \/ v = PyNone
    \/ IsStr(v) /\ v.s = <<>>
    \/ IsList(v) /\ ItemsAfterMarker(v.xs) = <<>>

(* C14: every record of the reference table yields exactly one row of     *)
(* kind reference, with the title of the record; a row that shows no      *)
(* email (its cells are empty or resolve to nothing) has an empty         *)
(* missing-list, and every matched email is shown by some other row.      *)
C14_EmptyRowsKept ==
    (Done /\ calls.records = "ok") =>
        /\ Cardinality(ReferenceRows) = Len(ref_records)
        /\ \A i \in DOMAIN ref_records :
              /\ i \in ReferenceRows
              /\ table_data[i].title = TitleOf(ref_records[i])
              /\ (\A c \in Cols : EmptyCell(ref_records[i].fields[c])) =>
                    \A c \in Cols : Display(i, c) = <<>>
              /\ (\A c \in Cols : Display(i, c) = <<>>) =>
                    /\ table_data[i].missing_emails = <<>>
                    /\ \A e \in matched_emails :
                          \E j \in ReferenceRows \ {i} : \E c \in Cols : e \in Resolved(j, c)

\* a record whose cells resolve to nothing, before a record with a match
C14_Witness ==
    /\ Done
    /\ \E i \in ReferenceRows :
          /\ \A c \in Cols : Display(i, c) = <<>>
          /\ table_data[i].title # PyStr(<<>>)
          /\ i < Len(ref_records)
    /\ matched_emails # {}

----------------------------------------------------------------------------
(* Corrections. *)

\* the calls of the last batch
Issued == {last_batch.issued[k] : k \in DOMAIN last_batch.issued}

\* the emails the last batch sent a call for
IssuedEmails == {m.email : m \in Issued}

\* the emails of the missing-lists of the selected reference rows
GrantCandidates ==
    UNION {Range(last_batch.rows[i].missing_emails) :
             i \in {i \in DOMAIN last_batch.rows : last_batch.rows[i].type = "reference"}}

\* the orphan emails of the selected orphan rows
RevokeCandidates ==
    {last_batch.rows[i].orphan_email.s :
       i \in {i \in DOMAIN last_batch.rows : last_batch.rows[i].type = "orphan"}}

\* the emails of the last batch
BatchEmails ==
    CASE last_batch.kind = "grant" -> GrantCandidates
      [] last_batch.kind = "revoke" -> RevokeCandidates
      [] OTHER -> {}

(* C15: every call that gives a role gives the role viewers, and every    *)
(* call of a grant batch gives a role: no grant of editors or owners is   *)
(* ever issued.                                                           *)
C15_GrantsAsViewer ==
    /\ \A m \in Issued : m.role # PyNone => m.role = PyStr(<<"viewers">>)
    /\ last_batch.kind = "grant" => \A m \in Issued : m.role = PyStr(<<"viewers">>)

\* a grant of two emails, one of which the platform now lists as a viewer
C15_Witness ==
    /\ last_batch.kind = "grant"
    /\ Cardinality(Issued) >= 2
    /\ \E m \in Issued :
          /\ m.ok
          /\ \E k \in DOMAIN platform_users :
                platform_users[k] = [email |-> PyStr(m.email), access |-> PyStr(<<"viewers">>)]

(* C16: a revoke batch sends a call with a null role for every orphan     *)
(* email of the selected orphan rows and for no other email.              *)
C16_RevokeSet ==
    last_batch.kind = "revoke" =>
        /\ \A m \in Issued : m.role = PyNone
        /\ IssuedEmails = RevokeCandidates

\* orphan rows selected together with a reference row that misses an email
C16_Witness ==
    /\ last_batch.kind = "revoke"
    /\ Cardinality(RevokeCandidates) >= 2
    /\ \E i \in DOMAIN last_batch.rows :
          /\ last_batch.rows[i].type = "reference"
          /\ last_batch.rows[i].missing_emails # <<>>

(* C17: a batch sends exactly one call for every one of its emails,       *)
(* whichever of the calls fail.                                           *)
C17_FailureDoesNotAbort ==
    last_batch.kind # "none" =>
        /\ IssuedEmails = BatchEmails
        /\ Len(last_batch.issued) = Cardinality(BatchEmails)

\* the first call of a batch failed and a later one was accepted
C17_Witness ==
    /\ last_batch.kind # "none"
    /\ Len(last_batch.issued) >= 2
    /\ ~last_batch.issued[1].ok
    /\ last_batch.issued[Len(last_batch.issued)].ok

(* C18 as claimed: a batch with a failed call is not reported as a        *)
(* success.                                                               *)
C18_FailuresReported ==
    (\E m \in Issued : ~m.ok) => last_batch.st_success = ""

\* the explicit grants of the document: email and role
ExplicitGrants(listing) ==
    {<<Lower(Strip(listing[k].email.s)), listing[k].access>> :
        k \in {k \in DOMAIN listing : listing[k].access # PyNone}}

\* this step is a correction: the matrix of a run gives way to a redrawn
\* page while the cached listing stays
CorrectionStep ==
    /\ run_status = "done"
    /\ run_status' = "idle"
    /\ doc_users_cache' = doc_users_cache

\* the batch of this step repeats the batch before it, and the platform
\* accepted every call of both
RepeatsLastBatch ==
    /\ CorrectionStep
    /\ last_batch.kind # "none"
    /\ last_batch'.kind = last_batch.kind
    /\ {m.email : m \in {last_batch'.issued[k] : k \in DOMAIN last_batch'.issued}} = IssuedEmails
    /\ \A m \in Issued : m.ok
    /\ \A k \in DOMAIN last_batch'.issued : last_batch'.issued[k].ok

C20_SnapshotRebuiltAfterCorrection ==
    Done => ~snapshot_stale

----------------------------------------------------------------------------
(* The batch derived from a selection. *)

\* no element of xs occurs twice
NoRepeats(xs) == \A j, k \in DOMAIN xs : xs[j] = xs[k] => j = k

(* C21: whichever rows of the matrix are ticked, no email occurs twice in *)
(* the list of grants and none twice in the list of removals, no email is *)
(* in both lists, and a batch sends no two calls for one email.           *)
C21_DedupedAndDisjoint ==
    /\ Done =>
          \A sel \in SUBSET DOMAIN table_data :
              LET selected_rows == SelectedRows(table_data, sel, 1) IN
              \A to_grant \in ListOfSet(GatherGrant(selected_rows)),
                 to_revoke \in ListOfSet(GatherRevoke(selected_rows)) :
                  /\ NoRepeats(to_grant)
                  /\ NoRepeats(to_revoke)
                  /\ Range(to_grant) \cap Range(to_revoke) = {}
    /\ NoRepeats([k \in DOMAIN last_batch.issued |-> last_batch.issued[k].email])

\* a grant for rows that miss one email twice, ticked together with an
\* orphan row
C21_Witness ==
    /\ last_batch.kind = "grant"
    /\ ~NoRepeats(GatherGrant(last_batch.rows))
    /\ GatherRevoke(last_batch.rows) # <<>>
    /\ Len(last_batch.issued) >= 2

\* the emails of xs in the order of their first occurrence
RECURSIVE FirstOccurrences(_)
FirstOccurrences(xs) ==
    IF xs = <<>> THEN <<>>
    ELSE LET front == FirstOccurrences(SubSeq(xs, 1, Len(xs) - 1))
             last == xs[Len(xs)]
         IN IF last \in Range(front) THEN front ELSE Append(front, last)

\* the emails of the selected rows of the last batch, row after row
Gathered ==
    CASE last_batch.kind = "grant" -> GatherGrant(last_batch.rows)
      [] last_batch.kind = "revoke" -> GatherRevoke(last_batch.rows)
      [] OTHER -> <<>>

(* C22 as claimed: the calls of a batch are sent in the order in which    *)
(* their emails occur in the selected rows.                               *)
C22_SelectionOrder ==
    last_batch.kind # "none" =>
        [k \in DOMAIN last_batch.issued |-> last_batch.issued[k].email]
            = FirstOccurrences(Gathered)

\* the calls of the last batch that were sent for email e
CallsFor(e) == {k \in DOMAIN last_batch.issued : last_batch.issued[k].email = e}

(* C23: a call that the platform does not accept comes back as a failure  *)
(* value and is not sent again: a batch ends with exactly one call for    *)
(* every one of its emails, failed or not, and every call that was not    *)
(* accepted returned False.                                               *)
C23_FailureReturnedNotRetried ==
    last_batch.kind # "none" =>
        /\ \A e \in BatchEmails : Cardinality(CallsFor(e)) = 1
        /\ \A k \in DOMAIN last_batch.issued :
              /\ last_batch.issued[k].email \in BatchEmails
              /\ last_batch.issued[k].ok = (last_batch.issued[k].answer = "ok")

\* a removal that failed: one call, and the platform still lists the grant
C23_Witness ==
    /\ last_batch.kind = "revoke"
    /\ \E m \in Issued :
          /\ m.answer = "failed"
          /\ ~m.ok
          /\ Cardinality(CallsFor(m.email)) = 1
          /\ \E k \in DOMAIN platform_users :
                /\ Lower(Strip(platform_users[k].email.s)) = m.email
                /\ platform_users[k].access # PyNone

(* C30 as claimed: the empty string is no email: it is not matched, it is *)
(* in no missing-list of a row whose emails all come from literal cells,  *)
(* and no call is sent for it.                                            *)
C30_EmptyStringNoEmail ==
    /\ <<>> \notin matched_emails
    /\ \A i \in ReferenceRows :
          (\A c \in DOMAIN ref_configs : Display(i, c) = <<>>) =>
              <<>> \notin Range(table_data[i].missing_emails)
    /\ <<>> \notin GrantCandidates
    /\ <<>> \notin IssuedEmails

----------------------------------------------------------------------------
(* Who is expected to hold access. *)

\* the emails that the cell v of column c designates in the tables as they
\* are: the binding of c applies whether or not a run could read its target
Designated(v, c) ==
    CASE IsStr(v) -> TrimmedLowerParts(v.s)
      [] IsList(v) ->
            LET items == ItemsAfterMarker(v.xs) IN
            UNION {IF IsStr(items[k]) THEN {Lower(Strip(items[k].s))}
                   ELSE IF IsInt(items[k]) /\ c \in DOMAIN ref_configs
                        THEN {Lower(Strip(r)) : r \in RawOfRef(items[k].n)}
                        ELSE {} : k \in DOMAIN items}
      [] IsInt(v) ->
            IF c \in DOMAIN ref_configs
            THEN UNION {TrimmedLowerParts(r) : r \in RawOfRef(v.n)}
            ELSE {}
      [] OTHER -> {}

\* the emails that some cell of a configured column designates
Expected ==
    UNION {Designated(ref_records[k].fields[c], c) : k \in DOMAIN ref_records, c \in Cols}

(* C27 as claimed: an email with an explicit grant that a cell of the      *)
(* reference table designates, literally or through its binding, gets no  *)
(* orphan row and no removal, also when the read of the bound table       *)
(* failed (the reference table itself was read).                          *)
C27_ExpectedNeverOrphan ==
    /\ (Done /\ calls.records = "ok") =>
          \A i \in OrphanRows : table_data[i].orphan_email.s \notin Expected
    /\ last_batch.kind = "revoke" => IssuedEmails \cap Expected = {}

----------------------------------------------------------------------------
(* Convergence. *)

\* the last batch corrected everything its matrix asked for: every row was
\* ticked, the rows asked for no correction of the other kind, and the
\* platform accepted every call
Reconciled ==
    /\ last_batch.kind # "none"
    /\ last_batch.all_selected
    /\ \A m \in Issued : m.ok
    /\ last_batch.kind = "grant" => GatherRevoke(last_batch.rows) = <<>>
    /\ last_batch.kind = "revoke" => GatherGrant(last_batch.rows) = <<>>

\* this run classified against a listing that was read, and read after
\* the last change of the grants
SnapshotRefetched == calls.access = "ok" /\ ~snapshot_stale

(* C28 as claimed: a run that follows a complete and accepted correction  *)
(* and a fresh read of the listing shows no missing email and no orphan   *)
(* row (the reference table is the same in every state).                  *)
C28_Converges ==
    (Done /\ Reconciled /\ SnapshotRefetched) =>
        /\ \A i \in ReferenceRows : table_data[i].missing_emails = <<>>
        /\ OrphanRows = {}

----------------------------------------------------------------------------
(* Lookups and the table they are built from. *)

\* the lookup of c2 holds the trimmed, lower-cased text of every row of
\* Users that has one, as the table is now
LookupMatchesTable ==
    /\ "c2" \in DOMAIN ref_lookups
    /\ DOMAIN ref_lookups.c2 = {users_table[i].id : i \in WithText("Users", "Email")}
    /\ \A i \in WithText("Users", "Email") :
          ref_lookups.c2[users_table[i].id] = Lower(Strip(users_table[i].fields.Email.s))

\* what the reference cells of c2 were resolved to is what they designate
\* in Users as the table is now
ResolvedMatchesTable ==
    (Done /\ calls.records = "ok") =>
        {Resolved(i, "c2") : i \in ReferenceRows}
            = {Designated(ref_records[k].fields.c2, "c2") : k \in DOMAIN ref_records}

\* this step is a run that read Users
RunReadTarget ==
    /\ users_table' = users_table
    /\ run_status' # "idle"
    /\ calls'.target = "ok"

(* C24: every run that reads the bound table builds its lookup from the   *)
(* rows the table has at that run, and resolves the references of the     *)
(* matrix against them, whatever an earlier run had built.                *)
C24_LookupRebuiltEveryRun ==
    [][RunReadTarget => (LookupMatchesTable /\ ResolvedMatchesTable)']_vars

\* a run after Users was edited under a displayed matrix: the lookup and a
\* resolved reference follow the edited rows
C24_Witness ==
    /\ Done
    /\ calls.target = "ok"
    /\ calls.records = "ok"
    /\ users_table # InitialUsers
    /\ users_table # <<>>
    /\ LookupMatchesTable
    /\ \E i \in ReferenceRows : Resolved(i, "c2") = {<<"a">>, <<"b">>}

----------------------------------------------------------------------------
(* Replacing the rules of a document. *)

\* the requests of the last press of "Enviar Regras" that change the rules
RuleRequests ==
    {k \in DOMAIN rules_tab.issued : rules_tab.issued[k].req \in {"delete", "insert"}}

\* the backup file of the last press holds every rule that the document had
\* when the button was pressed
BackupHoldsRules ==
    /\ rules_tab.backup.written
    /\ Len(rules_tab.backup.content) = Len(rules_tab.before)
    /\ \A k \in DOMAIN rules_tab.before :
          \E j \in DOMAIN rules_tab.backup.content :
              /\ rules_tab.backup.content[j].ID_Regra = rules_tab.before[k].id
              /\ rules_tab.backup.content[j].Permissoes
                    = rules_tab.before[k].fields.permissionsText

(* C25 as claimed: a delete or an insert on the rule table is sent only   *)
(* after the rules the document had were written to a backup file; after  *)
(* a failed backup none is sent.                                          *)
C25_BackupBeforeOverwrite ==
    /\ RuleRequests # {} => BackupHoldsRules
    /\ rules_tab.result = "backup_failed" => rules_tab.issued = <<>>

\* the rule table holds the rules of the text, in their order
HoldsSupplied ==
    /\ Len(acl_rules) = Len(rules_tab.supplied)
    /\ \A i \in DOMAIN acl_rules :
          LET f == acl_rules[i].fields
              rule == rules_tab.supplied[i]
              res == {k \in DOMAIN acl_resources : acl_resources[k].id = f.resource}
          IN /\ f.rulePos = i
             /\ f.aclFormula = GetOr(rule, "Condicao", "")
             /\ f.permissionsText = GetOr(rule, "Permissoes", "")
             /\ f.memo = GetOr(rule, "Memo", "")
             /\ \E k \in res :
                   ResourceName(acl_resources[k].fields.tableId,
                                acl_resources[k].fields.colIds)
                       = GetOr(rule, "Recurso", <<"Geral">>)

(* C26 as claimed: after a press that reported success the rule table     *)
(* holds exactly the rules of the text, at the positions 1..n in the      *)
(* order of the text, and none of the rules it held before.               *)
C26_ReplacesAllRules ==
    rules_tab.result = "success" => HoldsSupplied

----------------------------------------------------------------------------
(* Moving users between documents. *)

\* the listing gives email an explicit role
HeldIn(listing, email) ==
    \E k \in DOMAIN listing :
        /\ IsStr(listing[k].email)
        /\ SameEmail(listing[k].email.s, email)
        /\ listing[k].access # PyNone

\* the calls of row k of the last move: the role on the destination and
\* the removal from the document of the row
GrantOf(k) == last_move.issued[2 * k - 1]
RemovalOf(k) == last_move.issued[2 * k]

(* C29 as claimed: a user that a move took from a document where they     *)
(* held a role holds a role on the destination or still on the source;    *)
(* the removal is not applied after a failed grant, nor when the          *)
(* destination is the document of the row.                                *)
C29_MoveKeepsAccess ==
    last_move.kind = "move" =>
        \A k \in DOMAIN last_move.rows :
            LET row == last_move.rows[k] IN
            /\ HeldIn(last_move.before[row.Doc_ID], row.Email) =>
                  \/ HeldIn(docs_users[last_move.dest], row.Email)
                  \/ HeldIn(docs_users[row.Doc_ID], row.Email)
            /\ RemovalOf(k).call.ok =>
                  /\ GrantOf(k).call.ok
                  /\ last_move.dest # row.Doc_ID

====
